---- MODULE Spec2Model ----
(***************************************************************************)
(* Model of the EIA coal price scraper (src/Graph_Scrape.py): the Locator  *)
(* (stage1_infiltrate_and_get_iframe_url), the Renderer-Extractor          *)
(* (stage2_extract_data_from_iframe), process_and_save_data and the main   *)
(* block that sequences them.                                              *)
(*                                                                         *)
(* Python values are modelled as follows.  A str is the sequence of its    *)
(* characters.  A variable that may hold None is a sequence of length at   *)
(* most one: NoneV (<<>>) is None and Some(x) (<<x>>) is the value x.      *)
(* A date string '%Y-%m-%d' is the number of the calendar day it names,    *)
(* counted from 1970-01-01.                                                *)
(***************************************************************************)
EXTENDS Integers, Sequences, FiniteSets, TLC

VARIABLES
    pc,                   \* position of the running script
    gets,                 \* number of cffi_requests.get calls of this run
    searches,             \* number of re.search calls of this run
    response,             \* stage 1: the response object, None before the GET
    html_content,         \* stage 1: response.text
    iframe_relative_url,  \* stage 1: match.group(1)
    iframe_url,           \* value returned by stage 1 (None: failure)
    driver,               \* stage 2: "None", or the session: "open" / "quit"
    extracted_data,       \* stage 2: value returned by driver.execute_script
    ret,                  \* stage 2: value of the return statement executed
    raised,               \* stage 2: an exception is propagating out of it
    final_data,           \* main: value returned by stage 2
    cause,                \* stage 2: the step whose exception entered except
    log,                  \* external calls of this run, in order, with success
    tz,                   \* local UTC offset (seconds) read by fromtimestamp
    emitted,              \* all_data_points handed to the DataFrame
    csv_writes,           \* number of to_csv calls of this run
    csv_file,             \* file system: content of eia_coal_prices.csv
    prev                  \* summary of the previous run of the script

vars == <<pc, gets, searches, response, html_content, iframe_relative_url,
          iframe_url, driver, extracted_data, ret, raised, final_data, cause,
          log, tz, emitted, csv_writes, csv_file, prev>>

(* ----------------------------- bounds ---------------------------------- *)

\* longest iframe src path enumerated for the Locator
MaxPathLen == 4
\* most series in an enumerated extraction result
MaxSeries == 2
\* most points, over all its series, in an enumerated extraction result
MaxPoints == 3

(* --------------------------- Python values ----------------------------- *)

NoneV == <<>>
Some(x) == <<x>>

Min(S) == CHOOSE x \in S : \A y \in S : x <= y
Max(S) == CHOOSE x \in S : \A y \in S : x >= y

SeqsUpTo(S, n) == UNION {[1..k -> S] : k \in 0..n}

(* ----------------------------- strings --------------------------------- *)

BASE_URL == <<"h", "t", "t", "p", "s", ":", "/", "/", "w", "w", "w", ".",
              "e", "i", "a", ".", "g", "o", "v", "/", "c", "o", "a", "l", "/",
              "m", "a", "r", "k", "e", "t", "s", "/", "i", "n", "c", "l", "u",
              "d", "e", "s", "/">>

\* the literal parts of the pattern  <iframe[^>]*src="([^"]+)"
IFRAME_LIT == <<"<", "i", "f", "r", "a", "m", "e">>
SRC_LIT == <<"s", "r", "c", "=", "\"">>

\* the argument of lstrip: a set of characters, not a prefix
STRIP_CHARS == {".", "/"}

\* s[i..] starts with the literal lit
IsLit(s, i, lit) ==
    /\ i + Len(lit) - 1 <= Len(s)
    /\ \A k \in 1..Len(lit) : s[i + k - 1] = lit[k]

\* position of the first '"' at or after g, 0 when there is none
FirstQuote(s, g) ==
    LET Q == {e \in g..Len(s) : s[e] = "\""}
    IN  IF Q = {} THEN 0 ELSE Min(Q)

\* src="([^"]+)" matches at k: the group is not empty and a quote closes it
SrcAt(s, k) == IsLit(s, k, SRC_LIT) /\ FirstQuote(s, k + Len(SRC_LIT)) > k + Len(SRC_LIT)

\* the places where src=" can start after "<iframe" at i, [^>]* in between
TagMatches(s, i) ==
    {k \in (i + Len(IFRAME_LIT))..Len(s) :
        /\ \A j \in (i + Len(IFRAME_LIT))..(k - 1) : s[j] # ">"
        /\ SrcAt(s, k)}

MatchStarts(s) == {i \in 1..Len(s) : IsLit(s, i, IFRAME_LIT) /\ TagMatches(s, i) # {}}

\* re.search(r'<iframe[^>]*src="([^"]+)"', s): None, or group(1) of the
\* leftmost match; [^>]* is greedy, so the last src=" of the tag is taken
re_search(s) ==
    IF MatchStarts(s) = {} THEN NoneV
    ELSE LET i == Min(MatchStarts(s))
             k == Max(TagMatches(s, i))
             g == k + Len(SRC_LIT)
         IN  Some(SubSeq(s, g, FirstQuote(s, g) - 1))

\* str.lstrip(chars): drops every leading character that is in chars
RECURSIVE lstrip(_, _)
lstrip(s, chars) ==
    IF s # <<>> /\ s[1] \in chars THEN lstrip(Tail(s), chars) ELSE s

\* mutant: the status is never checked
StatusOk_Any(status) == TRUE

\* response.raise_for_status() of curl_cffi raises unless the status code is
\* in [200, 400)
StatusOk(status) == 200 <= status /\ status < 400

\* mutant: stage 2 is run whatever stage 1 returned
RunStage2_Always(url) == TRUE

\* truth value of a str-or-None, as in `if iframe_url:`
RunStage2(url) == url # NoneV /\ url[1] # <<>>

(* --------------------- process_and_save_data --------------------------- *)

\* datetime.fromtimestamp(timestamp_ms / 1000).strftime('%Y-%m-%d'): the
\* calendar day, in the zone z seconds east of UTC, of the instant ts
DateOf(ts, z) == (ts + z * 1000) \div 86400000

\* mutant: `if timestamp_ms and value`, which also drops zeros
KeepPoint_Truthy(p) == p.t # NoneV /\ p.v # NoneV /\ p.t[1] # 0 /\ p.v[1] # 0

\* `timestamp_ms is not None and value is not None`
KeepPoint(p) == p.t # NoneV /\ p.v # NoneV

\* the inner loop: the rows one series appends to all_data_points
RECURSIVE SeriesRows(_, _, _)
SeriesRows(name, pts, z) ==
    IF pts = <<>> THEN <<>>
    ELSE LET p == Head(pts)
             row == [Series |-> name, Date |-> DateOf(p.t[1], z), Value |-> p.v[1]]
         IN  (IF KeepPoint(p) THEN <<row>> ELSE <<>>) \o SeriesRows(name, Tail(pts), z)

\* the outer loop: all_data_points after `for series in data`
RECURSIVE all_data_points(_, _)
all_data_points(data, z) ==
    IF data = <<>> THEN <<>>
    ELSE SeriesRows(Head(data).name, Head(data).data, z) \o all_data_points(Tail(data), z)

\* `if not data: return`: None and the empty list are not processed
NoData(data) == data = NoneV \/ data[1] = <<>>

\* mutant: to_csv(..., mode='a'), rows are added to the file
to_csv_Append(old, rows) == IF old = NoneV THEN Some(rows) ELSE Some(old[1] \o rows)

\* df.to_csv(OUTPUT_FILENAME, index=False): the file is replaced
to_csv(old, rows) == Some(rows)

(* --------------------------- environment ------------------------------- *)

OPEN_TAG == <<"<", "i", "f", "r", "a", "m", "e", " ">>
ID_ATTR == <<"i", "d", "=", "\"", "a", "\"", " ">>
CLOSE_TAG == <<"\"", ">">>
NO_FRAME_DOC == <<"<", "p", ">", "a", "<", "/", "p", ">">>

\* <iframe src="PATH">
FrameDoc(path) == OPEN_TAG \o SRC_LIT \o path \o CLOSE_TAG

PATH_CHARS == {".", "/", "a"}

\* container pages enumerated for the Locator alone
LocateDocs ==
    {NO_FRAME_DOC, OPEN_TAG \o <<">">>}
    \cup {FrameDoc(p) : p \in SeqsUpTo(PATH_CHARS, MaxPathLen) \ {<<>>}}
    \cup {<<"<", "p", ">">> \o OPEN_TAG \o ID_ATTR \o SRC_LIT \o p \o CLOSE_TAG :
              p \in {<<".", "/", "a">>, <<"a">>}}
    \cup {OPEN_TAG \o SRC_LIT \o <<"a">> \o <<"\"", " ">> \o SRC_LIT \o <<".", "/", "a">> \o CLOSE_TAG}

\* container pages a whole run may be served
Bodies == {NO_FRAME_DOC, FrameDoc(<<".", "/", "a">>), FrameDoc(<<".", ".", "/", "a">>)}

Statuses == {200, 304, 404, 503}

\* what cffi_requests.get does: raises (None here), or returns a response
GetOutcomes == {NoneV} \cup {Some([status |-> s, text |-> d]) : s \in Statuses, d \in Bodies}

\* [timestampMillis, value] pairs a chart can hold; either part may be null
POINTS == {[t |-> Some(0), v |-> Some(0)],
           [t |-> Some(86400000), v |-> Some(5)],
           [t |-> Some(86400000), v |-> NoneV],
           [t |-> NoneV, v |-> Some(5)]}

NameOf(i) == IF i % 2 = 1 THEN "A" ELSE "B"

RECURSIVE Sum(_)
Sum(l) == IF l = <<>> THEN 0 ELSE Head(l) + Sum(Tail(l))

\* the series list with lens[i] points in series i, the points taken from flat
BuildResult(lens, flat) ==
    [i \in 1..Len(lens) |->
        [name |-> NameOf(i),
         data |-> SubSeq(flat, Sum(SubSeq(lens, 1, i - 1)) + 1, Sum(SubSeq(lens, 1, i)))]]

\* non-empty extraction results: at most MaxSeries series, MaxPoints points in all
BoundedResults ==
    UNION {{BuildResult(lens, flat) : flat \in [1..Sum(lens) -> POINTS]} :
             lens \in {l \in SeqsUpTo(0..MaxPoints, MaxSeries) : l # <<>> /\ Sum(l) <= MaxPoints}}

\* the example of the specification, timestamps scaled
SERIES_A == [name |-> "A", data |-> <<[t |-> Some(0), v |-> Some(0)],
                                      [t |-> Some(86400000), v |-> NoneV]>>]
SERIES_B == [name |-> "B", data |-> <<[t |-> Some(0), v |-> Some(5)]>>]

\* what driver.execute_script returns in a whole run: null, or a list
ScriptValues == {NoneV, Some(<<>>), Some(<<SERIES_A>>), Some(<<SERIES_A, SERIES_B>>)}

TzOffsets == {-18000, 0}

(* ------------------------------ state ---------------------------------- *)

NoPrev == [has |-> FALSE, pc |-> "done", log |-> <<>>, response |-> NoneV,
           extracted_data |-> NoneV, tz |-> NoneV, ret |-> NoneV,
           cause |-> "none", emitted |-> NoneV, csv_file |-> NoneV]

\* the state a run starts in; only the file system is not part of it
Fresh ==
    /\ pc = "s1_get"
    /\ gets = 0
    /\ searches = 0
    /\ response = NoneV
    /\ html_content = NoneV
    /\ iframe_relative_url = NoneV
    /\ iframe_url = NoneV
    /\ driver = "None"
    /\ extracted_data = NoneV
    /\ ret = NoneV
    /\ raised = FALSE
    /\ final_data = NoneV
    /\ cause = "none"
    /\ log = <<>>
    /\ tz = NoneV
    /\ emitted = NoneV
    /\ csv_writes = 0

Init == Fresh /\ csv_file = NoneV /\ prev = NoPrev

Call(op, ok) == [op |-> op, ok |-> ok]

(* -------------- stage1_infiltrate_and_get_iframe_url ------------------- *)

S1_Get ==
    /\ pc = "s1_get"
    /\ \E r \in GetOutcomes :
          /\ response' = r
          /\ log' = Append(log, Call("GET", r # NoneV))
          /\ pc' = IF r = NoneV THEN "main_if" ELSE "s1_status"
    /\ gets' = gets + 1
    /\ UNCHANGED <<searches, html_content, iframe_relative_url, iframe_url, driver,
                   extracted_data, ret, raised, final_data, cause, tz, emitted,
                   csv_writes, csv_file, prev>>

S1_RaiseForStatus ==
    /\ pc = "s1_status"
    /\ IF StatusOk(response[1].status)
       THEN html_content' = Some(response[1].text) /\ pc' = "s1_search"
       ELSE html_content' = html_content /\ pc' = "main_if"
    /\ UNCHANGED <<gets, searches, response, iframe_relative_url, iframe_url, driver,
                   extracted_data, ret, raised, final_data, cause, log, tz, emitted,
                   csv_writes, csv_file, prev>>

S1_Search ==
    /\ pc = "s1_search"
    /\ searches' = searches + 1
    /\ LET match == re_search(html_content[1])
       IN  IF match = NoneV
           THEN UNCHANGED <<iframe_relative_url, iframe_url>>
           ELSE /\ iframe_relative_url' = match
                /\ iframe_url' = Some(BASE_URL \o lstrip(match[1], STRIP_CHARS))
    /\ pc' = "main_if"
    /\ UNCHANGED <<gets, response, html_content, driver, extracted_data, ret, raised,
                   final_data, cause, log, tz, emitted, csv_writes, csv_file, prev>>

(* ------------------------------- main ---------------------------------- *)

Main_If ==
    /\ pc = "main_if"
    /\ pc' = IF RunStage2(iframe_url) THEN "s2_chrome" ELSE "done"
    /\ UNCHANGED <<gets, searches, response, html_content, iframe_relative_url,
                   iframe_url, driver, extracted_data, ret, raised, final_data,
                   cause, log, tz, emitted, csv_writes, csv_file, prev>>

(* ----------------- stage2_extract_data_from_iframe --------------------- *)

\* mutant: a failed call is swallowed and the try body goes on
AfterCall_Swallow(at, ok) ==
    CASE at = "s2_chrome" -> "s2_stealth"
      [] at = "s2_stealth" -> "s2_get"
      [] at = "s2_get" -> "s2_wait_tab"
      [] at = "s2_wait_tab" -> "s2_click"
      [] at = "s2_click" -> "s2_wait_render"
      [] at = "s2_wait_render" -> "s2_sleep"
      [] at = "s2_sleep" -> "s2_script"
      [] at = "s2_script" -> "s2_check"

\* the statement reached after the call made at `at`: the next statement of
\* the try body, or the except clause when the call raised
AfterCall(at, ok) ==
    IF ~ok THEN "s2_except"
    ELSE CASE at = "s2_chrome" -> "s2_stealth"
           [] at = "s2_stealth" -> "s2_get"
           [] at = "s2_get" -> "s2_wait_tab"
           [] at = "s2_wait_tab" -> "s2_click"
           [] at = "s2_click" -> "s2_wait_render"
           [] at = "s2_wait_render" -> "s2_sleep"
           [] at = "s2_sleep" -> "s2_script"
           [] at = "s2_script" -> "s2_check"

\* mutant: no screenshot is taken
ShotGuard_Never(d) == FALSE

\* `if driver:` of the except clause
ShotGuard(d) == d # "None"

\* `if driver:` of the finally clause
QuitGuard(d) == d # "None"

\* mutant: `if extracted_data is None`
NotExtracted_NoneOnly(data) == data = NoneV

\* `if not extracted_data:`
NotExtracted(data) == data = NoneV \/ data[1] = <<>>

\* a call of the try body that returns nothing the script keeps
S2_Call(at, op) ==
    /\ pc = at
    /\ \E ok \in BOOLEAN :
          /\ log' = Append(log, Call(op, ok))
          /\ pc' = AfterCall(at, ok)
          /\ cause' = IF ok THEN cause ELSE op
    /\ UNCHANGED <<gets, searches, response, html_content, iframe_relative_url,
                   iframe_url, driver, extracted_data, ret, raised, final_data,
                   tz, emitted, csv_writes, csv_file, prev>>

\* driver = webdriver.Chrome(...): the session exists once the call returned
S2_Chrome ==
    /\ pc = "s2_chrome"
    /\ \E ok \in BOOLEAN :
          /\ log' = Append(log, Call("Chrome", ok))
          /\ pc' = AfterCall("s2_chrome", ok)
          /\ cause' = IF ok THEN cause ELSE "Chrome"
          /\ driver' = IF ok THEN "open" ELSE driver
    /\ UNCHANGED <<gets, searches, response, html_content, iframe_relative_url,
                   iframe_url, extracted_data, ret, raised, final_data, tz,
                   emitted, csv_writes, csv_file, prev>>

S2_Stealth == S2_Call("s2_stealth", "stealth")

S2_Navigate == S2_Call("s2_get", "get")

S2_WaitTab == S2_Call("s2_wait_tab", "wait_clickable")

S2_Click == S2_Call("s2_click", "click")

S2_WaitRender == S2_Call("s2_wait_render", "wait_render")

\* time.sleep(2) does not raise
S2_Sleep ==
    /\ pc = "s2_sleep"
    /\ log' = Append(log, Call("sleep", TRUE))
    /\ pc' = AfterCall("s2_sleep", TRUE)
    /\ UNCHANGED <<gets, searches, response, html_content, iframe_relative_url,
                   iframe_url, driver, extracted_data, ret, raised, final_data,
                   cause, tz, emitted, csv_writes, csv_file, prev>>

\* extracted_data = driver.execute_script(js_script)
S2_Script ==
    /\ pc = "s2_script"
    /\ \E ok \in BOOLEAN :
          /\ log' = Append(log, Call("execute_script", ok))
          /\ pc' = AfterCall("s2_script", ok)
          /\ cause' = IF ok THEN cause ELSE "execute_script"
          /\ IF ok THEN extracted_data' \in ScriptValues
                   ELSE extracted_data' = extracted_data
    /\ UNCHANGED <<gets, searches, response, html_content, iframe_relative_url,
                   iframe_url, driver, ret, raised, final_data, tz, emitted,
                   csv_writes, csv_file, prev>>

\* if not extracted_data: raise Exception(...); else return extracted_data
S2_Check ==
    /\ pc = "s2_check"
    /\ IF NotExtracted(extracted_data)
       THEN cause' = "no_data" /\ pc' = "s2_except" /\ ret' = ret
       ELSE cause' = cause /\ pc' = "s2_finally" /\ ret' = extracted_data
    /\ UNCHANGED <<gets, searches, response, html_content, iframe_relative_url,
                   iframe_url, driver, extracted_data, raised, final_data, log,
                   tz, emitted, csv_writes, csv_file, prev>>

\* except Exception: the screenshot when there is a driver, then return None;
\* an exception of save_screenshot leaves the function through finally
S2_Except ==
    /\ pc = "s2_except"
    /\ IF ShotGuard(driver)
       THEN \E ok \in BOOLEAN :
               /\ log' = Append(log, Call("save_screenshot", ok))
               /\ raised' = ~ok
       ELSE log' = log /\ raised' = raised
    /\ ret' = NoneV
    /\ pc' = "s2_finally"
    /\ UNCHANGED <<gets, searches, response, html_content, iframe_relative_url,
                   iframe_url, driver, extracted_data, final_data, cause, tz,
                   emitted, csv_writes, csv_file, prev>>

\* mutant: driver.quit() at the end of the try body instead of in finally
S2_Finally_OnSuccessOnly ==
    /\ pc = "s2_finally"
    /\ IF QuitGuard(driver) /\ cause = "none"
       THEN log' = Append(log, Call("quit", TRUE)) /\ driver' = "quit"
       ELSE log' = log /\ driver' = driver
    /\ IF raised
       THEN pc' = "crashed" /\ final_data' = final_data
       ELSE pc' = "process" /\ final_data' = ret
    /\ UNCHANGED <<gets, searches, response, html_content, iframe_relative_url,
                   iframe_url, extracted_data, ret, raised, cause, tz, emitted,
                   csv_writes, csv_file, prev>>

\* finally: driver.quit() when there is a driver; then the function returns
\* to main, or the pending exception ends the script
S2_Finally ==
    /\ pc = "s2_finally"
    /\ IF QuitGuard(driver)
       THEN log' = Append(log, Call("quit", TRUE)) /\ driver' = "quit"
       ELSE log' = log /\ driver' = driver
    /\ IF raised
       THEN pc' = "crashed" /\ final_data' = final_data
       ELSE pc' = "process" /\ final_data' = ret
    /\ UNCHANGED <<gets, searches, response, html_content, iframe_relative_url,
                   iframe_url, extracted_data, ret, raised, cause, tz, emitted,
                   csv_writes, csv_file, prev>>

(* ---------------------- process_and_save_data -------------------------- *)

\* mutant: no `if not data` guard, and a loop that takes None for no series
Process_Unguarded ==
    /\ pc = "process"
    /\ \E z \in TzOffsets :
          LET data == IF final_data = NoneV THEN <<>> ELSE final_data[1]
          IN  /\ tz' = Some(z)
              /\ emitted' = Some(all_data_points(data, z))
              /\ csv_file' = to_csv(csv_file, all_data_points(data, z))
              /\ csv_writes' = csv_writes + 1
    /\ pc' = "done"
    /\ UNCHANGED <<gets, searches, response, html_content, iframe_relative_url,
                   iframe_url, driver, extracted_data, ret, raised, final_data,
                   cause, log, prev>>

Process ==
    /\ pc = "process"
    /\ IF NoData(final_data)
       THEN UNCHANGED <<tz, emitted, csv_writes, csv_file>>
       ELSE \E z \in TzOffsets :
               /\ tz' = Some(z)
               /\ emitted' = Some(all_data_points(final_data[1], z))
               /\ csv_file' = to_csv(csv_file, all_data_points(final_data[1], z))
               /\ csv_writes' = csv_writes + 1
    /\ pc' = "done"
    /\ UNCHANGED <<gets, searches, response, html_content, iframe_relative_url,
                   iframe_url, driver, extracted_data, ret, raised, final_data,
                   cause, log, prev>>

(* --------------------------- the next run ------------------------------ *)

\* the script is started again: nothing of the process that ended is kept,
\* the file system is
NextRun ==
    /\ pc \in {"done", "crashed"}
    /\ prev' = [has |-> TRUE, pc |-> pc, log |-> log, response |-> response,
                extracted_data |-> extracted_data, tz |-> tz, ret |-> ret,
                cause |-> cause, emitted |-> emitted, csv_file |-> csv_file]
    /\ pc' = "s1_get"
    /\ gets' = 0
    /\ searches' = 0
    /\ response' = NoneV
    /\ html_content' = NoneV
    /\ iframe_relative_url' = NoneV
    /\ iframe_url' = NoneV
    /\ driver' = "None"
    /\ extracted_data' = NoneV
    /\ ret' = NoneV
    /\ raised' = FALSE
    /\ final_data' = NoneV
    /\ cause' = "none"
    /\ log' = <<>>
    /\ tz' = NoneV
    /\ emitted' = NoneV
    /\ csv_writes' = 0
    /\ UNCHANGED csv_file

Next ==
    \/ S1_Get \/ S1_RaiseForStatus \/ S1_Search \/ Main_If
    \/ S2_Chrome \/ S2_Stealth \/ S2_Navigate \/ S2_WaitTab \/ S2_Click
    \/ S2_WaitRender \/ S2_Sleep \/ S2_Script \/ S2_Check \/ S2_Except
    \/ S2_Finally \/ Process \/ NextRun

Spec == Init /\ [][Next]_vars

(* ------------------ the Locator's match, on its own -------------------- *)

\* stage 1 after a successful GET, for every enumerated container page
InitLocate ==
    /\ \E d \in LocateDocs :
          /\ response = Some([status |-> 200, text |-> d])
          /\ html_content = Some(d)
    /\ pc = "s1_search"
    /\ gets = 1
    /\ searches = 0
    /\ iframe_relative_url = NoneV
    /\ iframe_url = NoneV
    /\ driver = "None"
    /\ extracted_data = NoneV
    /\ ret = NoneV
    /\ raised = FALSE
    /\ final_data = NoneV
    /\ cause = "none"
    /\ log = <<Call("GET", TRUE)>>
    /\ tz = NoneV
    /\ emitted = NoneV
    /\ csv_writes = 0
    /\ csv_file = NoneV
    /\ prev = NoPrev

NextLocate == S1_Search \/ Main_If

SpecLocate == InitLocate /\ [][NextLocate]_vars

(* ------------------- process_and_save_data, on its own ----------------- *)

SUCCESS_LOG == <<Call("GET", TRUE), Call("Chrome", TRUE), Call("stealth", TRUE),
                 Call("get", TRUE), Call("wait_clickable", TRUE), Call("click", TRUE),
                 Call("wait_render", TRUE), Call("sleep", TRUE),
                 Call("execute_script", TRUE), Call("quit", TRUE)>>

STALE_ROW == [Series |-> "B", Date |-> 7, Value |-> 1]

\* main after a successful stage 2, for every enumerated extraction result;
\* the output file may exist already
InitProcess ==
    /\ \E d \in BoundedResults :
          /\ extracted_data = Some(d)
          /\ ret = Some(d)
          /\ final_data = Some(d)
    /\ csv_file \in {NoneV, Some(<<STALE_ROW>>)}
    /\ pc = "process"
    /\ gets = 1
    /\ searches = 1
    /\ response = Some([status |-> 200, text |-> FrameDoc(<<".", "/", "a">>)])
    /\ html_content = Some(FrameDoc(<<".", "/", "a">>))
    /\ iframe_relative_url = Some(<<".", "/", "a">>)
    /\ iframe_url = Some(BASE_URL \o <<"a">>)
    /\ driver = "quit"
    /\ raised = FALSE
    /\ cause = "none"
    /\ log = SUCCESS_LOG
    /\ tz = NoneV
    /\ emitted = NoneV
    /\ csv_writes = 0
    /\ prev = NoPrev

NextProcess == Process

SpecProcess == InitProcess /\ [][NextProcess]_vars

(* ------------------------------ claims --------------------------------- *)

Count(op) == Cardinality({i \in 1..Len(log) : log[i].op = op})

IndexOf(op) == Min({i \in 1..Len(log) : log[i].op = op})

SessionStarted == \E i \in 1..Len(log) : log[i] = Call("Chrome", TRUE)

\* stage 2 was entered and has been left
Stage2Exited == pc \in {"process", "done", "crashed"} /\ iframe_url # NoneV

\* stage 2 was left by its except clause
Stage2Failed == pc \in {"s2_finally", "process", "done", "crashed"} /\ cause # "none"

\* C1: a browser session that was started is terminated (driver.quit) exactly
\* once before stage 2 is left, on every exit path; a session is open only
\* inside stage 2.
C1_SessionReleased ==
    /\ Count("quit") <= 1
    /\ Count("Chrome") <= 1
    /\ Count("quit") = 1 => SessionStarted
    /\ (Stage2Exited /\ SessionStarted) => (Count("quit") = 1 /\ driver = "quit")
    /\ driver = "open" => pc \notin {"s1_get", "s1_status", "s1_search", "main_if",
                                     "process", "done", "crashed"}

\* C1 witness: the screenshot itself failed, the exception left stage 2, and
\* the session was terminated all the same
C1_Witness ==
    /\ pc = "crashed"
    /\ log[Len(log) - 1] = Call("save_screenshot", FALSE)
    /\ log[Len(log)] = Call("quit", TRUE)
    /\ driver = "quit"

\* C2: while the Locator has not returned a URL, nothing of stage 2 has
\* happened (no session, no navigation, no script), nothing is processed or
\* written, and after a failed Locator the run only ends.
C2_LocatorGate ==
    iframe_url = NoneV =>
        /\ pc \in {"s1_get", "s1_status", "s1_search", "main_if", "done"}
        /\ driver = "None"
        /\ \A i \in 1..Len(log) : log[i].op = "GET"
        /\ extracted_data = NoneV
        /\ emitted = NoneV
        /\ csv_writes = 0

\* C2 witness: a 200 response without an iframe tag ended the run
C2_Witness ==
    /\ pc = "done"
    /\ iframe_url = NoneV
    /\ response # NoneV
    /\ response[1].status = 200
    /\ searches = 1

\* the path with one leading "./" removed, when it has one
StripOneMarker(p) ==
    IF Len(p) >= 2 /\ p[1] = "." /\ p[2] = "/" THEN SubSeq(p, 3, Len(p)) ELSE p

\* C3 (as claimed): for a src path that starts with "./" the Locator returns
\* the base path followed by the path with exactly that one "./" removed,
\* whatever follows it.
C3_StripsOneMarker ==
    (/\ pc # "s1_search" /\ iframe_relative_url # NoneV
     /\ IsLit(iframe_relative_url[1], 1, <<".", "/">>))
        => iframe_url = Some(BASE_URL \o StripOneMarker(iframe_relative_url[1]))

\* C4 (as claimed): after a non-2xx response the pattern match is never
\* attempted.
C4_Non2xxNoSearch ==
    (response # NoneV /\ ~(200 <= response[1].status /\ response[1].status < 300))
        => searches = 0

\* C4 (amended): after a response with status 400 or above the Locator fails
\* without a pattern match; the GET is issued once per run and never again.
C4_ErrorStatusNoSearch ==
    /\ gets <= 1
    /\ pc # "s1_get" => gets = 1
    /\ (response # NoneV /\ response[1].status >= 400) =>
          /\ searches = 0
          /\ iframe_url = NoneV
          /\ pc \in {"s1_status", "main_if", "done"}

\* C4 witness: a 404 whose body holds an iframe tag ended the run
C4_Witness ==
    /\ pc = "done"
    /\ response # NoneV
    /\ response[1].status = 404
    /\ re_search(response[1].text) # NoneV
    /\ searches = 0

\* C5 (as claimed): after any exception of stage 2, session start included,
\* a screenshot has been taken.
C5_ShotOnAnyFailure == Stage2Failed => Count("save_screenshot") = 1

\* C5 (amended): after an exception of stage 2 raised once the session was
\* started, save_screenshot has been called exactly once, before driver.quit
\* and before stage 2 is left; without an exception it is never called.
C5_ShotBeforeTeardown ==
    /\ (Stage2Failed /\ SessionStarted) =>
          /\ Count("save_screenshot") = 1
          /\ Count("quit") = 1 => IndexOf("save_screenshot") < IndexOf("quit")
    /\ Count("save_screenshot") = 1 => (Stage2Failed /\ SessionStarted)
    /\ Count("save_screenshot") <= 1

\* C5 witness: the tab never became clickable; screenshot, then quit
C5_Witness ==
    /\ pc = "process"
    /\ cause = "wait_clickable"
    /\ log[Len(log) - 1] = Call("save_screenshot", TRUE)
    /\ log[Len(log)] = Call("quit", TRUE)

\* the points of data that have a timestamp and a value, as
\* <<series index, point index>>
ValidPoints(data) ==
    UNION {{<<i, j>> : j \in {j \in 1..Len(data[i].data) :
                                 data[i].data[j].t # NoneV /\ data[i].data[j].v # NoneV}} :
             i \in 1..Len(data)}

\* the place of a valid point among the valid points, in reporting order
Rank(data, q) ==
    Cardinality({r \in ValidPoints(data) : r[1] < q[1] \/ (r[1] = q[1] /\ r[2] <= q[2])})

\* C6: the rows handed downstream and written are exactly the points with
\* both a timestamp and a value, each with the name of its series, its value
\* and its date, in the order the series and their points were reported.
C6_RowsAreValidPoints ==
    pc = "done" =>
        /\ emitted # NoneV
        /\ csv_file = emitted
        /\ LET data == final_data[1]
               rows == emitted[1]
           IN  /\ Len(rows) = Cardinality(ValidPoints(data))
               /\ \A q \in ValidPoints(data) :
                     LET row == rows[Rank(data, q)]
                         point == data[q[1]].data[q[2]]
                     IN  /\ row.Series = data[q[1]].name
                         /\ row.Value = point.v[1]
                         /\ row.Date = DateOf(point.t[1], tz[1])

\* C6 witness: series A with a valid and a null-valued point, series B with
\* one valid point: two rows
C6_Witness ==
    /\ pc = "done"
    /\ final_data = Some(<<[name |-> "A", data |-> <<[t |-> Some(0), v |-> Some(0)],
                                                    [t |-> Some(86400000), v |-> NoneV]>>],
                           [name |-> "B", data |-> <<[t |-> Some(86400000), v |-> Some(5)]>>]>>)
    /\ Len(emitted[1]) = 2
    /\ emitted[1][1].Series = "A"
    /\ emitted[1][2].Series = "B"

ErrorCauses == {"stealth", "get", "wait_clickable", "click", "wait_render", "execute_script"}

\* C7 (as claimed): the value stage 2 returns for no data differs from the
\* value it returned for an error (here: in the previous run).
C7_NoDataDistinct ==
    (/\ prev.has /\ prev.pc = "done" /\ prev.cause \in ErrorCauses
     /\ pc \in {"process", "done"} /\ cause = "no_data")
        => final_data # prev.ret

\* C7 (amended): when the script returns null or an empty list, stage 2 takes
\* its failure path and returns None, the value it returns for a timeout or
\* an exception; only a success returns something else, a non-empty list.
C7_NoDataIsFailure ==
    (pc \in {"process", "done"} /\ iframe_url # NoneV) =>
        /\ (/\ Count("execute_script") = 1
            /\ log[IndexOf("execute_script")].ok
            /\ (extracted_data = NoneV \/ extracted_data = Some(<<>>)))
              => (cause = "no_data" /\ final_data = NoneV)
        /\ cause # "none" => final_data = NoneV
        /\ cause = "none" => (final_data # NoneV /\ final_data[1] # <<>>)
        /\ (prev.has /\ prev.pc = "done" /\ prev.cause \in ErrorCauses /\ cause = "no_data")
              => final_data = prev.ret

\* C7 witness: the script returned an empty list
C7_Witness ==
    /\ pc = "done"
    /\ cause = "no_data"
    /\ extracted_data = Some(<<>>)
    /\ final_data = NoneV

\* C8: the output file is written at most once per run, and only after an
\* extraction that returned a non-empty result; in a run where the Locator or
\* stage 2 failed nothing is emitted and the file is as the run found it.
C8_NoOutputOnFailure ==
    /\ csv_writes <= 1
    /\ csv_writes = 1 =>
          (/\ pc = "done" /\ cause = "none" /\ ~raised
           /\ final_data # NoneV /\ final_data[1] # <<>> /\ emitted # NoneV)
    /\ csv_writes = 0 => (emitted = NoneV /\ csv_file = prev.csv_file)
    /\ (pc \in {"done", "crashed"} /\ (iframe_url = NoneV \/ cause # "none" \/ raised))
          => (csv_writes = 0 /\ emitted = NoneV /\ csv_file = prev.csv_file)

\* C8 witness: a run that found no data ended after an earlier run had
\* written the file, which is still as that run left it
C8_Witness ==
    /\ pc = "done"
    /\ cause = "no_data"
    /\ prev.has
    /\ prev.csv_file # NoneV
    /\ csv_file = prev.csv_file

\* this run was given the responses the previous run was given
SameResponses ==
    /\ prev.has
    /\ log = prev.log
    /\ response = prev.response
    /\ extracted_data = prev.extracted_data
    /\ tz = prev.tz

\* C9: a run that is given the same external responses as the run before it
\* ends the same way, emits the same rows and leaves the same output file.
C9_Idempotent ==
    (pc \in {"done", "crashed"} /\ SameResponses) =>
        /\ pc = prev.pc
        /\ cause = prev.cause
        /\ ret = prev.ret
        /\ emitted = prev.emitted
        /\ csv_file = prev.csv_file

\* C9 witness: two successful runs in a row with the same responses and rows
C9_Witness ==
    /\ pc = "done"
    /\ SameResponses
    /\ csv_writes = 1
    /\ emitted[1] # <<>>

TRY_CALLS == <<"Chrome", "stealth", "get", "wait_clickable", "click", "wait_render",
               "sleep", "execute_script">>

\* the calls of stage 2, the GET of stage 1 left out
Stage2Log == SubSeq(log, 2, Len(log))

\* the number of calls of the try body made so far
TryLen ==
    Cardinality({i \in 1..Len(Stage2Log) : Stage2Log[i].op \notin {"save_screenshot", "quit"}})

\* C10: the calls of stage 2 are a prefix of the fixed order, each made at
\* most once and only after every earlier call succeeded; a failed call is
\* the last call of the try body; then at most one screenshot and one quit,
\* in that order, and a session that was started ends with the quit.
C10_LinearOrder ==
    /\ TryLen <= Len(TRY_CALLS)
    /\ \A i \in 1..TryLen :
          /\ Stage2Log[i].op = TRY_CALLS[i]
          /\ i < TryLen => Stage2Log[i].ok
    /\ Len(Stage2Log) <= TryLen + 2
    /\ Len(Stage2Log) = TryLen + 2 =>
          (Stage2Log[TryLen + 1].op = "save_screenshot" /\ Stage2Log[TryLen + 2].op = "quit")
    /\ (Len(Stage2Log) = TryLen + 1 /\ Stage2Log[TryLen + 1].op = "save_screenshot")
          => pc = "s2_finally"
    /\ (Len(Stage2Log) > TryLen /\ Stage2Log[TryLen].ok) => TryLen = Len(TRY_CALLS)
    /\ (Len(Stage2Log) > TryLen /\ cause = "none") => Stage2Log[TryLen + 1].op = "quit"
    /\ (Stage2Exited /\ SessionStarted) => log[Len(log)] = Call("quit", TRUE)

\* C10 witness: every step succeeded, data was extracted, the session ended
C10_Witness ==
    /\ pc = "done"
    /\ cause = "none"
    /\ csv_writes = 1
    /\ [i \in 1..Len(TRY_CALLS) |-> Stage2Log[i].op] = TRY_CALLS
    /\ \A i \in 1..Len(Stage2Log) : Stage2Log[i].ok
    /\ Stage2Log[Len(Stage2Log)].op = "quit"
====
